---------------------------- MODULE Spec2Model ----------------------------
(***************************************************************************)
(* A model of the OpenAI -> NVIDIA NIM proxy: the bounded-retry wrapper    *)
(* axiosWithRetry (src/unnamed/part_000), the line-buffering SSE stream    *)
(* transcoder and the non-stream mapper of the second /v1/chat/completions *)
(* handler of src/server.js (lines 247-435), and the raw pass-through      *)
(* stream handler of the first one (lines 75-161).                         *)
(*                                                                         *)
(* Specifications: Spec and SpecChunks (the buffering stream handler, with *)
(* coarse and with byte-level chunking), SpecDisconnect (the same with a   *)
(* caller that goes away), SpecConcurrent (several streaming requests),    *)
(* SpecPassThrough (the first handler), SpecRetry (axiosWithRetry alone)   *)
(* and SpecBuffered (the buffered handler of src/unnamed/part_000).        *)
(*                                                                         *)
(* Text is modelled character by character: a JavaScript string is a       *)
(* sequence of one-character strings, a Buffer is a sequence of bytes.     *)
(* An ASCII byte is written as its character; the two bytes of the UTF-8   *)
(* encoding of U+00E9 are the tokens "xC3" and "xA9", the character itself *)
(* is the token "U+E9" and the replacement character is "U+FFFD".          *)
(***************************************************************************)
EXTENDS Integers, Sequences, FiniteSets

(***************************************************************************)
(* Bounds of the model.                                                    *)
(***************************************************************************)
\* upstream lines emitted during one streaming response
MaxLines == 2
\* largest partial chunk (in bytes) cut out of the line in transmission
MaxChunk == 2
\* largest `retries` argument axiosWithRetry is called with
MaxRetries == 3
\* longest inbound message list
MaxMessages == 2
\* streaming requests in flight at the same time
MaxStreams == 2
\* "data" events delivered to the requests in flight, all together
MaxEvents == 3

(***************************************************************************)
(* String literals of the source.                                          *)
(***************************************************************************)
\* "data: "  (line.startsWith("data: "), `data: ${...}`)
DATA_PREFIX == <<"d", "a", "t", "a", ":", " ">>
\* "[DONE]"
DONE_MARK == <<"[", "D", "O", "N", "E", "]">>
\* "<think>\n"
THINK_OPEN == <<"<", "t", "h", "i", "n", "k", ">", "\n">>
\* "</think>\n\n"
THINK_CLOSE == <<"<", "/", "t", "h", "i", "n", "k", ">", "\n", "\n">>
\* "\n</think>\n\n"  (non-stream mapper)
NL_THINK_CLOSE == <<"\n">> \o THINK_CLOSE
K_choices == <<"c", "h", "o", "i", "c", "e", "s">>
K_delta == <<"d", "e", "l", "t", "a">>
K_content == <<"c", "o", "n", "t", "e", "n", "t">>
K_reasoning_content ==
    <<"r", "e", "a", "s", "o", "n", "i", "n", "g", "_">> \o K_content
K_message == <<"m", "e", "s", "s", "a", "g", "e">>
K_index == <<"i", "n", "d", "e", "x">>

(***************************************************************************)
(* String.prototype operations used by the handlers.                       *)
(***************************************************************************)
\* s.startsWith(p)
StartsWith(s, p) == Len(s) >= Len(p) /\ SubSeq(s, 1, Len(p)) = p

\* s.includes(p)
Includes(s, p) ==
    \E i \in 1..(Len(s) - Len(p) + 1) : SubSeq(s, i, i + Len(p) - 1) = p

\* s.slice(n)
Slice(s, n) == SubSeq(s, n + 1, Len(s))

\* the concatenation parts[lo] \o ... \o parts[hi], by halves
RECURSIVE Flatten(_, _, _)
Flatten(parts, lo, hi) ==
    IF lo > hi THEN <<>>
    ELSE IF lo = hi THEN parts[lo]
    ELSE LET mid == (lo + hi) \div 2
         IN  Flatten(parts, lo, mid) \o Flatten(parts, mid + 1, hi)

\* s.split("\n"): always at least one element, the last one is what follows
\* the last "\n"
RECURSIVE SplitFrom(_, _, _)
SplitFrom(s, i, acc) ==
    LET breaks == {j \in i..Len(s) : s[j] = "\n"}
    IN  IF breaks = {} THEN Append(acc, SubSeq(s, i, Len(s)))
        ELSE LET b == CHOOSE j \in breaks : \A k \in breaks : j <= k
             IN  SplitFrom(s, b + 1, Append(acc, SubSeq(s, i, b - 1)))

Split(s) == SplitFrom(s, 1, <<>>)

(***************************************************************************)
(* chunk.toString(): UTF-8 decoding of one chunk on its own.    *)
(* An incomplete or stray multi-byte sequence decodes to U+FFFD.           *)
(***************************************************************************)
\* what the byte at position i of b contributes to the decoded text: a lead
\* byte gives the character when its continuation byte follows and U+FFFD
\* when it does not; a continuation byte gives nothing after its lead byte
\* and U+FFFD on its own
DecodeAt(b, i) ==
    IF b[i] = "xC3"
    THEN IF i + 1 <= Len(b) /\ b[i + 1] = "xA9" THEN <<"U+E9">>
         ELSE <<"U+FFFD">>
    ELSE IF b[i] = "xA9"
    THEN IF i > 1 /\ b[i - 1] = "xC3" THEN <<>> ELSE <<"U+FFFD">>
    ELSE <<b[i]>>

chunk_toString(b) == Flatten([i \in 1..Len(b) |-> DecodeAt(b, i)], 1, Len(b))

\* the UTF-8 bytes the upstream puts on the wire for a text
Utf8(s) ==
    Flatten([i \in 1..Len(s) |->
               IF s[i] = "U+E9" THEN <<"xC3", "xA9">> ELSE <<s[i]>>],
            1, Len(s))

(***************************************************************************)
(* JSON values.  An object is the sequence of its <<key, value>> members   *)
(* in insertion order, which is the order JSON.stringify writes them.      *)
(***************************************************************************)
JUndef == [t |-> "undefined", v |-> <<>>]
JNull == [t |-> "null", v |-> <<>>]
JStr(s) == [t |-> "string", v |-> s]
JNum(d) == [t |-> "number", v |-> d]
JArr(a) == [t |-> "array", v |-> a]
JObj(m) == [t |-> "object", v |-> m]

Digits == {"0", "1", "2", "3", "4", "5", "6", "7", "8", "9"}

\* ToBoolean(x)
Truthy(x) ==
    CASE x.t = "undefined" -> FALSE
      [] x.t = "null" -> FALSE
      [] x.t = "string" -> x.v # <<>>
      [] x.t = "number" -> \E i \in 1..Len(x.v) : x.v[i] # "0"
      [] OTHER -> TRUE

\* x[key] for an object x (undefined when x has no such member or is a
\* primitive or an array, whose members the model does not name)
Get(x, key) ==
    IF x.t = "object" /\ \E i \in 1..Len(x.v) : x.v[i][1] = key
    THEN x.v[CHOOSE i \in 1..Len(x.v) : x.v[i][1] = key][2]
    ELSE JUndef

\* x[key] = val: an existing member keeps its place, a new one goes last;
\* on a primitive the assignment is dropped (sloppy mode), on an array the
\* named property is invisible to JSON.stringify
Put(x, key, val) ==
    IF x.t # "object" THEN x
    ELSE IF \E i \in 1..Len(x.v) : x.v[i][1] = key
    THEN JObj([i \in 1..Len(x.v) |->
                 IF x.v[i][1] = key THEN <<key, val>> ELSE x.v[i]])
    ELSE JObj(Append(x.v, <<key, val>>))

\* delete x[key]
Delete(x, key) ==
    IF x.t # "object" THEN x
    ELSE JObj(SelectSeq(x.v, LAMBDA m : m[1] # key))

\* x[i] for an array x, zero-based
At(x, i) ==
    IF x.t = "array" /\ i + 1 <= Len(x.v) THEN x.v[i + 1] ELSE JUndef

\* x[i] = val for an array x, zero-based, i in range
PutAt(x, i, val) ==
    JArr([j \in 1..Len(x.v) |-> IF j = i + 1 THEN val ELSE x.v[j]])

(***************************************************************************)
(* JSON.stringify                                                          *)
(***************************************************************************)
Escape(s) ==
    Flatten([i \in 1..Len(s) |->
               CASE s[i] = "\n" -> <<"\\", "n">>
                 [] s[i] = "\"" -> <<"\\", "\"">>
                 [] s[i] = "\\" -> <<"\\", "\\">>
                 [] OTHER -> <<s[i]>>],
            1, Len(s))

Quote(s) == <<"\"">> \o Escape(s) \o <<"\"">>

RECURSIVE JoinComma(_)
JoinComma(parts) ==
    IF parts = <<>> THEN <<>>
    ELSE IF Len(parts) = 1 THEN parts[1]
    ELSE parts[1] \o <<",">> \o JoinComma(Tail(parts))

RECURSIVE JSON_stringify(_)
JSON_stringify(x) ==
    CASE x.t = "null" -> <<"n", "u", "l", "l">>
      [] x.t = "string" -> Quote(x.v)
      [] x.t = "number" -> x.v
      [] x.t = "array" ->
           <<"[">>
           \o JoinComma([i \in 1..Len(x.v) |-> JSON_stringify(x.v[i])])
           \o <<"]">>
      [] x.t = "object" ->
           <<"{">>
           \o JoinComma([i \in 1..Len(x.v) |->
                           Quote(x.v[i][1]) \o <<":">>
                           \o JSON_stringify(x.v[i][2])])
           \o <<"}">>

(***************************************************************************)
(* JSON.parse, by recursive descent over the text: objects, arrays,        *)
(* strings (escapes \n \" \\), non-negative integers and null; blanks      *)
(* around the top-level value are skipped.  The result is                  *)
(* [ok, v, n]: whether a value was read, the value, the next position.     *)
(***************************************************************************)
ParseFail == [ok |-> FALSE, v |-> JUndef, n |-> 0]
ParseOk(val, next) == [ok |-> TRUE, v |-> val, n |-> next]

RECURSIVE ParseString(_, _, _)
ParseString(s, i, acc) ==
    IF i > Len(s) THEN ParseFail
    ELSE IF s[i] = "\"" THEN ParseOk(JStr(acc), i + 1)
    ELSE IF s[i] = "\n" THEN ParseFail
    ELSE IF s[i] = "\\"
         THEN IF i + 1 > Len(s) THEN ParseFail
              ELSE IF s[i + 1] = "n"
                   THEN ParseString(s, i + 2, Append(acc, "\n"))
              ELSE IF s[i + 1] \in {"\"", "\\"}
                   THEN ParseString(s, i + 2, Append(acc, s[i + 1]))
              ELSE ParseFail
    ELSE ParseString(s, i + 1, Append(acc, s[i]))

RECURSIVE ParseNumber(_, _, _)
ParseNumber(s, i, acc) ==
    IF i <= Len(s) /\ s[i] \in Digits
    THEN ParseNumber(s, i + 1, Append(acc, s[i]))
    ELSE IF acc = <<>> \/ (Len(acc) > 1 /\ acc[1] = "0") THEN ParseFail
    ELSE ParseOk(JNum(acc), i)

RECURSIVE ParseValue(_, _)
RECURSIVE ParseElements(_, _, _)
RECURSIVE ParseMembers(_, _, _)

\* after the element e of an array: "," and the next one, or "]"
AfterElement(s, acc, e) ==
    IF ~e.ok \/ e.n > Len(s) THEN ParseFail
    ELSE IF s[e.n] = "," THEN ParseElements(s, e.n + 1, Append(acc, e.v))
    ELSE IF s[e.n] = "]" THEN ParseOk(JArr(Append(acc, e.v)), e.n + 1)
    ELSE ParseFail

\* after the value e of the member `key`: "," and the next member, or "}"
AfterMember(s, obj, key, e) ==
    IF ~e.ok \/ e.n > Len(s) THEN ParseFail
    ELSE IF s[e.n] = "," THEN ParseMembers(s, e.n + 1, Put(obj, key, e.v))
    ELSE IF s[e.n] = "}" THEN ParseOk(Put(obj, key, e.v), e.n + 1)
    ELSE ParseFail

\* after the key k of a member: ":" and its value
AfterKey(s, obj, k) ==
    IF ~k.ok \/ k.n > Len(s) THEN ParseFail
    ELSE IF s[k.n] # ":" THEN ParseFail
    ELSE AfterMember(s, obj, k.v.v, ParseValue(s, k.n + 1))

ParseValue(s, i) ==
    IF i > Len(s) THEN ParseFail
    ELSE IF s[i] = "\"" THEN ParseString(s, i + 1, <<>>)
    ELSE IF s[i] = "{"
         THEN IF i + 1 <= Len(s) /\ s[i + 1] = "}"
              THEN ParseOk(JObj(<<>>), i + 2)
              ELSE ParseMembers(s, i + 1, JObj(<<>>))
    ELSE IF s[i] = "["
         THEN IF i + 1 <= Len(s) /\ s[i + 1] = "]"
              THEN ParseOk(JArr(<<>>), i + 2)
              ELSE ParseElements(s, i + 1, <<>>)
    ELSE IF s[i] = "n"
         THEN IF SubSeq(s, i, i + 3) = <<"n", "u", "l", "l">>
              THEN ParseOk(JNull, i + 4)
              ELSE ParseFail
    ELSE IF s[i] \in Digits THEN ParseNumber(s, i, <<>>)
    ELSE ParseFail

ParseElements(s, i, acc) == AfterElement(s, acc, ParseValue(s, i))

ParseMembers(s, i, obj) ==
    IF i > Len(s) THEN ParseFail
    ELSE IF s[i] # "\"" THEN ParseFail
    ELSE AfterKey(s, obj, ParseString(s, i + 1, <<>>))

RECURSIVE SkipBlanks(_, _)
SkipBlanks(s, i) ==
    IF i <= Len(s) /\ s[i] \in {" ", "\r", "\t"} THEN SkipBlanks(s, i + 1)
    ELSE i

\* the whole text must be one value
WholeText(s, r) ==
    IF r.ok /\ SkipBlanks(s, r.n) = Len(s) + 1 THEN r ELSE ParseFail

\* [ok |-> FALSE] stands for the SyntaxError JSON.parse throws
JSON_parse(s) == WholeText(s, ParseValue(s, SkipBlanks(s, 1)))

(***************************************************************************)
(* The stream transcoder of the second handler (server.js:324-389).        *)
(* Its closure state is buffer and reasoningStarted; what it hands to      *)
(* res.write is kept as a sequence of texts, in call order.                *)
(***************************************************************************)
\* the operand of a string concatenation ("<think>\n" + reasoning)
StrOf(x) == IF x.t \in {"string", "number"} THEN x.v ELSE <<>>

\* server.js:370-371: if (combined) delta.content = combined;
\* delete delta.reasoning_content
StoreCombined(delta, combined, started) ==
    [delta |-> Delete(IF combined # <<>>
                      THEN Put(delta, K_content, JStr(combined))
                      ELSE delta,
                      K_reasoning_content),
     started |-> started]

\* the content half of the merge, had it left the flag set when it closes
\* the reasoning block
MergeContentKeepsOpen(delta, content, combined, started) ==
    IF Truthy(content) /\ started
    THEN StoreCombined(delta, combined \o THINK_CLOSE \o StrOf(content),
                       started)
    ELSE IF Truthy(content)
    THEN StoreCombined(delta, combined \o StrOf(content), started)
    ELSE StoreCombined(delta, combined, started)

\* server.js:363-368: the content half of the merge
MergeContent(delta, content, combined, started) ==
    IF Truthy(content) /\ started
    THEN StoreCombined(delta, combined \o THINK_CLOSE \o StrOf(content), FALSE)
    ELSE IF Truthy(content)
    THEN StoreCombined(delta, combined \o StrOf(content), started)
    ELSE StoreCombined(delta, combined, started)

\* server.js:354-361: the reasoning half of the merge
MergeReasoning(delta, reasoning, content, started) ==
    IF Truthy(reasoning) /\ ~started
    THEN MergeContent(delta, content, THINK_OPEN \o StrOf(reasoning), TRUE)
    ELSE IF Truthy(reasoning)
    THEN MergeContent(delta, content, StrOf(reasoning), started)
    ELSE MergeContent(delta, content, <<>>, started)

\* server.js:373-374: delta.content = content || ""; delete
\* delta.reasoning_content
StoreContent(delta, content, started) ==
    [delta |-> Delete(Put(delta, K_content,
                          IF Truthy(content) THEN content ELSE JStr(<<>>)),
                      K_reasoning_content),
     started |-> started]

\* server.js:349-375: [delta, started] after the merge under the policy
MergeDelta(delta, started, show) ==
    IF show
    THEN MergeReasoning(delta, Get(delta, K_reasoning_content),
                        Get(delta, K_content), started)
    ELSE StoreContent(delta, Get(delta, K_content), started)

\* the event with the merged delta in place of data.choices[0].delta (the
\* source rewrites the delta object in place)
WithDelta(data, choices, choice0, m) ==
    [data |-> Put(data, K_choices,
                  PutAt(choices, 0, Put(choice0, K_delta, m.delta))),
     started |-> m.started]

\* server.js:348: if (data.choices?.[0]?.delta)
RewriteChoice(data, choices, choice0, delta, started, show) ==
    IF Truthy(delta)
    THEN WithDelta(data, choices, choice0, MergeDelta(delta, started, show))
    ELSE [data |-> data, started |-> started]

RewriteChoices(data, choices, choice0, started, show) ==
    RewriteChoice(data, choices, choice0, Get(choice0, K_delta), started, show)

\* server.js:348-376: [data, started] after the rewrite of the event
RewriteEvent(data, started, show) ==
    RewriteChoices(data, Get(data, K_choices), At(Get(data, K_choices), 0),
                   started, show)

\* server.js:378: res.write(`data: ${JSON.stringify(data)}\n\n`)
WriteEvent(r) ==
    [started |-> r.started, wrote |-> TRUE,
     text |-> DATA_PREFIX \o JSON_stringify(r.data) \o <<"\n", "\n">>]

\* server.js:379-381: catch { res.write(line + "\n") }
WriteRaw(line, started) ==
    [started |-> started, wrote |-> TRUE, text |-> line \o <<"\n">>]

\* the try block without its catch: an undecodable payload writes nothing
\* and resets the flag
TryEventAborting(line, p, started, show) ==
    IF ~p.ok THEN [started |-> FALSE, wrote |-> FALSE, text |-> <<>>]
    ELSE IF p.v.t = "null" THEN WriteRaw(line, started)
    ELSE WriteEvent(RewriteEvent(p.v, started, show))

\* server.js:345-381: the try block on the parsed payload p; the catch runs
\* when JSON.parse threw, or when data.choices threw because data is null
TryEvent(line, p, started, show) ==
    IF ~p.ok THEN WriteRaw(line, started)
    ELSE IF p.v.t = "null" THEN WriteRaw(line, started)
    ELSE WriteEvent(RewriteEvent(p.v, started, show))

\* server.js:337-382: the body of lines.forEach for one line; the result is
\* [started, wrote, text]: the flag, whether res.write was called, with what
TranscodeLine(line, started, show) ==
    IF ~StartsWith(line, DATA_PREFIX)
    THEN [started |-> started, wrote |-> FALSE, text |-> <<>>]
    ELSE IF Includes(line, DONE_MARK) THEN WriteRaw(line, started)
    ELSE TryEvent(line, JSON_parse(Slice(line, 6)), started, show)

RECURSIVE ForEachLine(_, _, _, _)

\* the rest of forEach, had a line's write gone in front of the earlier ones
AfterLineReordered(rest, r, show, writes) ==
    ForEachLine(rest, r.started, show,
                IF r.wrote THEN <<r.text>> \o writes ELSE writes)

\* the rest of forEach after one line's result r
AfterLine(rest, r, show, writes) ==
    ForEachLine(rest, r.started, show,
                IF r.wrote THEN Append(writes, r.text) ELSE writes)

\* lines.forEach over the complete lines: [started, writes]
ForEachLine(lines, started, show, writes) ==
    IF lines = <<>> THEN [started |-> started, writes |-> writes]
    ELSE AfterLine(Tail(lines), TranscodeLine(Head(lines), started, show),
                   show, writes)

\* the buffer, had the unfinished last line been dropped
DropLast(lines) == <<>>

\* buffer = lines.pop() || ""   (server.js:335)
KeepLast(lines) == lines[Len(lines)]

\* the lines left in `lines` after lines.pop()
AllButLast(lines) == SubSeq(lines, 1, Len(lines) - 1)

\* [buffer, started, writes] from the new buffer and the forEach result
ListenerResult(newBuffer, r) ==
    [buffer |-> newBuffer, started |-> r.started, writes |-> r.writes]

\* server.js:334-382 on the split lines
OnLines(lines, started, show) ==
    ListenerResult(KeepLast(lines),
                   ForEachLine(AllButLast(lines), started, show, <<>>))

\* server.js:332-383: the "data" listener on one chunk (a Buffer); the
\* result is [buffer, started, writes]
DataListener(buf, started, show, chunk) ==
    OnLines(Split(buf \o chunk_toString(chunk)), started, show)

\* server.js:402-408 on the message's fields
WithReasoning(reasoning, fullContent, show) ==
    IF show /\ Truthy(reasoning)
    THEN THINK_OPEN \o StrOf(reasoning) \o NL_THINK_CLOSE \o fullContent
    ELSE fullContent

\* server.js:400: let fullContent = choice.message?.content || ""
FullContent(content) == IF Truthy(content) THEN StrOf(content) ELSE <<>>

\* server.js:399-408: the content the non-stream mapper gives one choice
NonStreamContent(choice, show) ==
    WithReasoning(Get(Get(choice, K_message), K_reasoning_content),
                  FullContent(Get(Get(choice, K_message), K_content)), show)

(***************************************************************************)
(* The upstream's lines.  Every line the upstream emits during a streaming *)
(* response is one of these texts.                                         *)
(***************************************************************************)
\* {"choices":[{"delta":{...members...}}]}
DeltaEvent(members) ==
    JObj(<< <<K_choices, JArr(<< JObj(<< <<K_delta, JObj(members)>> >>) >>)>> >>)

DataLine(x) == DATA_PREFIX \o JSON_stringify(x)

TextHel == <<"H", "e", "l">>
TextLo == <<"l", "o">>
TextR == <<"r", "U+E9">>

\* the blank line that ends an SSE event
LineBlank == <<>>
\* the terminal marker
LineDone == DATA_PREFIX \o DONE_MARK
\* a data line whose payload is not JSON
LineBadJson == DATA_PREFIX \o <<"{", "U+E9">>
LineContentHel == DataLine(DeltaEvent(<< <<K_content, JStr(TextHel)>> >>))
LineContentLo == DataLine(DeltaEvent(<< <<K_content, JStr(TextLo)>> >>))
LineReasoning ==
    DataLine(DeltaEvent(<< <<K_reasoning_content, JStr(TextR)>> >>))
LineBoth ==
    DataLine(DeltaEvent(<< <<K_reasoning_content, JStr(TextR)>>,
                           <<K_content, JStr(TextLo)>> >>))
\* the opening event of a stream: nothing to say yet
LineEmpty ==
    DataLine(DeltaEvent(<< <<K_content, JStr(<<>>)>>,
                           <<K_reasoning_content, JNull>> >>))
\* a reasoning fragment that mentions the terminal marker
LineReasoningDone ==
    DataLine(DeltaEvent(<< <<K_reasoning_content, JStr(DONE_MARK)>> >>))
\* an event whose first choice has no delta and whose second choice carries
\* a reasoning delta
LineSecondChoice ==
    DataLine(JObj(<< <<K_choices,
        JArr(<< JObj(<< <<K_index, JNum(<<"0">>)>> >>),
                JObj(<< <<K_delta,
                          JObj(<< <<K_reasoning_content, JStr(TextR)>> >>)>> >>)
             >>)>> >>))

Catalog ==
    {LineBlank, LineDone, LineBadJson, LineContentHel, LineContentLo,
     LineReasoning, LineBoth, LineEmpty, LineReasoningDone, LineSecondChoice}

\* what the upstream call can fail with: an HTTP status, or 0 for a
\* transport error without a response
UpstreamErrors == {0, 429, 503}

(***************************************************************************)
(* State.                                                                  *)
(***************************************************************************)
VARIABLES
    SHOW_REASONING,     \* the display policy (server.js:202)
    phase,              \* where the request handler is
    upstreamCalls,      \* upstream requests issued for this inbound request
    buffer,             \* let buffer (server.js:329)
    reasoningStarted,   \* let reasoningStarted (server.js:330)
    res,                \* the texts written to the response, in order
    resEnded,           \* res.end() or res.json() was called
    resStatus,          \* the response's status code
    crashed,            \* an error escaped every handler
    upState,            \* the upstream body stream: idle, open, ended, errored
    rem,                \* bytes the upstream has produced, not yet delivered
    remFinal,           \* rem is a last line without its line terminator
    linesEmitted,       \* lines the upstream has produced
    wire,               \* every byte delivered so far
    seen,               \* every chunk.toString() so far, concatenated
    retries,            \* axiosWithRetry: the `retries` of the current frame
    retries0,           \* axiosWithRetry: the `retries` of the first call
    attempts,           \* axiosWithRetry: outcome of each fn() so far
    inFlight,           \* axiosWithRetry: fn() promises not yet settled
    retryPc,            \* axiosWithRetry: idle, calling, waiting, returned, thrown
    settled,            \* axiosWithRetry: what the first call settled with
    downstream,         \* the caller's connection: open, or closed and when
    request,            \* req.body of the buffered handler (part_000:105)
    payload,            \* the body sent upstream (part_000:134-140)
    streams             \* the closures of concurrent streaming requests

vars ==
    <<SHOW_REASONING, phase, upstreamCalls, buffer, reasoningStarted, res,
      resEnded, resStatus, crashed, upState, rem, remFinal, linesEmitted,
      wire, seen, retries, retries0, attempts, inFlight, retryPc,
      settled, downstream, request, payload, streams>>

streamVars ==
    <<SHOW_REASONING, phase, upstreamCalls, buffer, reasoningStarted, res,
      resEnded, resStatus, crashed, upState, rem, remFinal, linesEmitted,
      wire, seen>>

retryVars == <<retries, retries0, attempts, inFlight, retryPc, settled>>

otherVars == <<downstream, request, payload, streams>>

\* no streaming request has been set up: no closures, no "data" events
NoStreams == [closures |-> <<>>, events |-> <<>>]

\* no caller has gone away, no buffered request and no concurrent streams
OtherIdle ==
    /\ downstream = [open |-> TRUE, writes |-> 0, bytes |-> 0]
    /\ request = [model |-> "",
                  messages |-> [given |-> FALSE, v |-> <<>>],
                  max_tokens |-> [given |-> FALSE, v |-> 0]]
    /\ payload = [model |-> "", messages |-> <<>>, max_tokens |-> 0,
                  stream |-> FALSE]
    /\ streams = NoStreams

RetryIdle ==
    /\ retries = 0
    /\ retries0 = 0
    /\ attempts = <<>>
    /\ inFlight = 0
    /\ retryPc = "idle"
    /\ settled = [kind |-> "none", value |-> 0]

\* the request has arrived, nothing has been sent upstream
StreamIdle ==
    /\ phase = "received"
    /\ upstreamCalls = 0
    /\ buffer = <<>>
    /\ reasoningStarted = FALSE
    /\ res = <<>>
    /\ resEnded = FALSE
    /\ resStatus = 200
    /\ crashed = FALSE
    /\ upState = "idle"
    /\ rem = <<>>
    /\ remFinal = FALSE
    /\ linesEmitted = 0
    /\ wire = <<>>
    /\ seen = <<>>

(***************************************************************************)
(* The second handler with stream = true (server.js:247-435).              *)
(***************************************************************************)
Init ==
    /\ SHOW_REASONING \in BOOLEAN
    /\ StreamIdle
    /\ RetryIdle
    /\ OtherIdle

\* server.js:309-319: await axios.post(...)
PostUpstream ==
    /\ phase = "received"
    /\ phase' = "posting"
    /\ upstreamCalls' = upstreamCalls + 1
    /\ UNCHANGED <<SHOW_REASONING, buffer, reasoningStarted, res, resEnded,
                   resStatus, crashed, upState, rem, remFinal, linesEmitted,
                   wire, seen>>
    /\ UNCHANGED retryVars
    /\ UNCHANGED otherVars

\* server.js:324-388: the response arrived; headers set, listeners attached
BeginStream ==
    /\ phase = "posting"
    /\ phase' = "streaming"
    /\ buffer' = <<>>
    /\ reasoningStarted' = FALSE
    /\ upState' = "open"
    /\ UNCHANGED <<SHOW_REASONING, upstreamCalls, res, resEnded, resStatus,
                   crashed, rem, remFinal, linesEmitted, wire, seen>>
    /\ UNCHANGED retryVars
    /\ UNCHANGED otherVars

\* server.js:424-434: axios.post rejected; the catch block answers
PostRejected(e) ==
    /\ phase = "posting"
    /\ phase' = "failed"
    /\ resStatus' = IF e # 0 THEN e ELSE 500
    /\ resEnded' = TRUE
    /\ UNCHANGED <<SHOW_REASONING, upstreamCalls, buffer, reasoningStarted,
                   res, crashed, upState, rem, remFinal, linesEmitted, wire,
                   seen>>
    /\ UNCHANGED retryVars
    /\ UNCHANGED otherVars

\* the upstream produces its next line, terminated or (as the last thing it
\* sends) not
UpstreamEmit(line, terminated) ==
    /\ upState = "open"
    /\ rem = <<>>
    /\ ~remFinal
    /\ linesEmitted < MaxLines
    /\ terminated \/ line # <<>>
    /\ rem' = Utf8(line) \o (IF terminated THEN <<"\n">> ELSE <<>>)
    /\ remFinal' = ~terminated
    /\ linesEmitted' = linesEmitted + 1
    /\ UNCHANGED <<SHOW_REASONING, phase, upstreamCalls, buffer,
                   reasoningStarted, res, resEnded, resStatus, crashed,
                   upState, wire, seen>>
    /\ UNCHANGED retryVars
    /\ UNCHANGED otherVars

\* the "data" event with `chunk`, which takes `taken` bytes off rem; r is
\* what the listener did
Delivered(chunk, taken, r) ==
    /\ buffer' = r.buffer
    /\ reasoningStarted' = r.started
    /\ res' = res \o r.writes
    /\ rem' = Slice(rem, taken)
    /\ wire' = wire \o chunk
    /\ seen' = seen \o chunk_toString(chunk)
    /\ UNCHANGED <<SHOW_REASONING, phase, upstreamCalls, resEnded,
                   resStatus, crashed, upState, remFinal>>
    /\ UNCHANGED retryVars
    /\ UNCHANGED otherVars

Deliver(chunk, taken) ==
    Delivered(chunk, taken,
              DataListener(buffer, reasoningStarted, SHOW_REASONING, chunk))

\* server.js:332: a chunk that is a part (possibly all, possibly nothing) of
\* what the upstream has produced
OnData(k) ==
    /\ upState = "open"
    /\ k <= Len(rem)
    /\ Deliver(SubSeq(rem, 1, k), k)
    /\ UNCHANGED linesEmitted

\* server.js:332: a chunk that ends the line in transmission and carries the
\* whole next line as well
OnDataAcross(line) ==
    /\ upState = "open"
    /\ ~remFinal
    /\ linesEmitted < MaxLines
    /\ Deliver(rem \o Utf8(line) \o <<"\n">>, Len(rem))
    /\ linesEmitted' = linesEmitted + 1

\* the "end" listener, had it written the retained fragment before closing
OnEndFlushing ==
    /\ upState = "open"
    /\ rem = <<>>
    /\ upState' = "ended"
    /\ res' = IF buffer # <<>> THEN Append(res, buffer) ELSE res
    /\ resEnded' = TRUE
    /\ phase' = "done"
    /\ UNCHANGED <<SHOW_REASONING, upstreamCalls, buffer, reasoningStarted,
                   resStatus, crashed, rem, remFinal, linesEmitted, wire,
                   seen>>
    /\ UNCHANGED retryVars
    /\ UNCHANGED otherVars

\* server.js:385: response.data.on("end", () => res.end())
OnEnd ==
    /\ upState = "open"
    /\ rem = <<>>
    /\ upState' = "ended"
    /\ resEnded' = TRUE
    /\ phase' = "done"
    /\ UNCHANGED <<SHOW_REASONING, upstreamCalls, buffer, reasoningStarted,
                   res, resStatus, crashed, rem, remFinal, linesEmitted, wire,
                   seen>>
    /\ UNCHANGED retryVars
    /\ UNCHANGED otherVars

\* server.js:386: response.data.on("error", () => res.end())
OnError ==
    /\ upState = "open"
    /\ upState' = "errored"
    /\ resEnded' = TRUE
    /\ phase' = "done"
    /\ UNCHANGED <<SHOW_REASONING, upstreamCalls, buffer, reasoningStarted,
                   res, resStatus, crashed, rem, remFinal, linesEmitted, wire,
                   seen>>
    /\ UNCHANGED retryVars
    /\ UNCHANGED otherVars

\* Chunk sizes.  In Spec a chunk is nothing, all of what the upstream has
\* produced or, of a line not yet begun, its first half; in SpecChunks,
\* which draws the lines from a smaller catalog, it is any number of bytes
\* up to MaxChunk, or all there is, so that a chunk can end at every byte of
\* the stream.
CutAt(cut) ==
    CASE cut = "nothing" -> 0
      [] cut = "half" -> IF wire = <<>> \/ wire[Len(wire)] = "\n"
                         THEN (Len(rem) + 1) \div 2 ELSE Len(rem)
      [] cut = "all" -> Len(rem)

ChunkCatalog ==
    {LineBlank, LineDone, LineBadJson, LineReasoning, LineContentLo}

Next ==
    \/ PostUpstream
    \/ BeginStream
    \/ \E e \in UpstreamErrors : PostRejected(e)
    \/ \E line \in Catalog, terminated \in BOOLEAN :
          UpstreamEmit(line, terminated)
    \/ \E cut \in {"nothing", "half", "all"} : OnData(CutAt(cut))
    \/ \E line \in Catalog : OnDataAcross(line)
    \/ OnEnd
    \/ OnError

Spec == Init /\ [][Next]_vars

ChunksNext ==
    \/ PostUpstream
    \/ BeginStream
    \/ \E e \in UpstreamErrors : PostRejected(e)
    \/ \E line \in ChunkCatalog, terminated \in BOOLEAN :
          UpstreamEmit(line, terminated)
    \/ \E k \in 0..MaxChunk : OnData(k)
    \/ OnData(Len(rem))
    \/ \E line \in ChunkCatalog : OnDataAcross(line)
    \/ OnEnd
    \/ OnError

SpecChunks == Init /\ [][ChunksNext]_vars

(***************************************************************************)
(* The same handler with a caller that can go away (server.js:324-389).    *)
(* The handler registers listeners on response.data only, none on req or   *)
(* res: when the caller's connection closes, no code of the handler runs,  *)
(* the upstream stream keeps flowing and the "data" listener keeps calling *)
(* res.write.  downstream records how much had been delivered and written  *)
(* when the connection closed.                                             *)
(***************************************************************************)
ClientDisconnect ==
    /\ phase = "streaming"
    /\ downstream.open
    /\ downstream' = [open |-> FALSE, writes |-> Len(res), bytes |-> Len(wire)]
    /\ UNCHANGED <<request, payload, streams>>
    /\ UNCHANGED streamVars
    /\ UNCHANGED retryVars

DisconnectNext ==
    \/ Next
    \/ ClientDisconnect

SpecDisconnect == Init /\ [][DisconnectNext]_vars

(***************************************************************************)
(* Several streaming requests in flight (server.js:324-386).  Each run of  *)
(* the handler executes `let buffer` and `let reasoningStarted` anew, and  *)
(* the listeners it registers close over those bindings and over its own   *)
(* res.  streams.closures[r] holds the bindings of request r and what was  *)
(* written to its res; streams.events is the order in which the "data"     *)
(* events of all the requests were dispatched.                             *)
(***************************************************************************)
\* server.js:329-330
NewClosure == [buffer |-> <<>>, reasoningStarted |-> FALSE, res |-> <<>>]

\* the bindings, had they been declared once outside the handler
ClosureShared(closures, r) == closures[1]

\* the bindings the listeners of request r close over
ClosureOf(closures, r) == closures[r]

\* a line with its terminator, and its two halves
Whole(line) == Utf8(line) \o <<"\n">>
FirstHalf(line) == SubSeq(Whole(line), 1, Len(Whole(line)) \div 2)
SecondHalf(line) == Slice(Whole(line), Len(Whole(line)) \div 2)

ConcurrentChunks ==
    {Whole(LineContentLo), Whole(LineReasoning), FirstHalf(LineReasoning),
     SecondHalf(LineReasoning)}

\* the handler of one more request reaches its streaming block
OpenStream ==
    /\ Len(streams.closures) < MaxStreams
    /\ streams' = [streams EXCEPT !.closures = Append(@, NewClosure)]
    /\ UNCHANGED <<downstream, request, payload>>
    /\ UNCHANGED streamVars
    /\ UNCHANGED retryVars

\* request r after its listener ran on chunk with the result out
AfterData(r, chunk, out) ==
    [closures |-> [streams.closures EXCEPT ![r] =
                     [buffer |-> out.buffer,
                      reasoningStarted |-> out.started,
                      res |-> @.res \o out.writes]],
     events |-> Append(streams.events, <<r, chunk>>)]

\* the listener of request r on chunk, run on the bindings c
ListenerOn(c, chunk) ==
    DataListener(c.buffer, c.reasoningStarted, SHOW_REASONING, chunk)

\* server.js:332: a "data" event of request r
StreamData(r, chunk) ==
    /\ r <= Len(streams.closures)
    /\ Len(streams.events) < MaxEvents
    /\ streams' = AfterData(r, chunk,
                            ListenerOn(ClosureOf(streams.closures, r), chunk))
    /\ UNCHANGED <<downstream, request, payload>>
    /\ UNCHANGED streamVars
    /\ UNCHANGED retryVars

ConcurrentNext ==
    \/ OpenStream
    \/ \E r \in 1..MaxStreams, chunk \in ConcurrentChunks : StreamData(r, chunk)

SpecConcurrent == Init /\ [][ConcurrentNext]_vars

(* written through as it comes.  It registers "data" and "end" listeners   *)
(* and none for "error".                                                   *)
(***************************************************************************)
\* server.js:108-114
PassPostUpstream == PostUpstream

\* server.js:117-124: headers, then the two listeners
PassBeginStream ==
    /\ phase = "posting"
    /\ phase' = "streaming"
    /\ upState' = "open"
    /\ UNCHANGED <<SHOW_REASONING, upstreamCalls, buffer, reasoningStarted,
                   res, resEnded, resStatus, crashed, rem, remFinal,
                   linesEmitted, wire, seen>>
    /\ UNCHANGED retryVars
    /\ UNCHANGED otherVars

\* server.js:150-160
PassPostRejected(e) == PostRejected(e)

\* server.js:122: chunk => res.write(chunk.toString())
PassOnData(k) ==
    /\ upState = "open"
    /\ rem # <<>>
    /\ k \in {Len(rem), (Len(rem) + 1) \div 2}
    /\ res' = Append(res, chunk_toString(SubSeq(rem, 1, k)))
    /\ rem' = Slice(rem, k)
    /\ wire' = wire \o SubSeq(rem, 1, k)
    /\ seen' = seen \o chunk_toString(SubSeq(rem, 1, k))
    /\ UNCHANGED <<SHOW_REASONING, phase, upstreamCalls, buffer,
                   reasoningStarted, resEnded, resStatus, crashed, upState,
                   remFinal, linesEmitted>>
    /\ UNCHANGED retryVars
    /\ UNCHANGED otherVars

\* server.js:123: response.data.on('end', () => res.end())
PassOnEnd == OnEnd

\* the stream emits "error" and the handler has no listener for it: the
\* event is thrown as an uncaught exception unless some other party listens
\* on the stream, and either way nothing ends the response
PassOnError(uncaught) ==
    /\ upState = "open"
    /\ upState' = "errored"
    /\ crashed' = uncaught
    /\ UNCHANGED <<SHOW_REASONING, phase, upstreamCalls, buffer,
                   reasoningStarted, res, resEnded, resStatus, rem, remFinal,
                   linesEmitted, wire, seen>>
    /\ UNCHANGED retryVars
    /\ UNCHANGED otherVars

PassNext ==
    \/ PassPostUpstream
    \/ PassBeginStream
    \/ \E e \in UpstreamErrors : PassPostRejected(e)
    \/ \E line \in Catalog, terminated \in BOOLEAN :
          UpstreamEmit(line, terminated)
    \/ \E k \in 1..Len(rem) : PassOnData(k)
    \/ PassOnEnd
    \/ \E uncaught \in BOOLEAN : PassOnError(uncaught)

SpecPassThrough == Init /\ [][PassNext]_vars

(***************************************************************************)
(* axiosWithRetry (part_000:27-36).  attempts holds the outcome of every   *)
(* fn() so far, [ok, value]: the response or the error it settled with.    *)
(***************************************************************************)
\* async function axiosWithRetry(fn, retries = 2)
DefaultRetries == 2

\* what fn() can reject with: transport errors, the transport client's
\* error for a body above maxContentLength / maxBodyLength (part_000:23-24),
\* which carries no response, and an upstream status; and what it can
\* resolve with
PAYLOAD_TOO_LARGE == "ERR_MAX_LENGTH_EXCEEDED"
FnErrors == {"ECONNRESET", "ETIMEDOUT", PAYLOAD_TOO_LARGE, "HTTP503"}
FnValues == {"response", "response2"}

\* the test with the bound off by one
ExhaustedOffByOne(r) == r < 0

\* part_000:31: if (retries <= 0) throw err
Exhausted(r) == r <= 0

RetryInit ==
    /\ SHOW_REASONING = FALSE
    /\ StreamIdle
    /\ RetryIdle
    /\ OtherIdle

\* part_000:27-29: the call axiosWithRetry(fn, n), up to the await of fn()
CallWithRetry(n) ==
    /\ retryPc = "idle"
    /\ retries0' = n
    /\ retries' = n
    /\ inFlight' = inFlight + 1
    /\ retryPc' = "calling"
    /\ UNCHANGED <<attempts, settled>>
    /\ UNCHANGED streamVars
    /\ UNCHANGED otherVars

\* fn() resolved, had the wrapper gone on to its delay and next attempt
\* all the same
FnResolvesAndRetries(v) ==
    /\ retryPc = "calling"
    /\ attempts' = Append(attempts, [ok |-> TRUE, value |-> v])
    /\ inFlight' = inFlight - 1
    /\ retryPc' = "waiting"
    /\ UNCHANGED <<retries, retries0, settled>>
    /\ UNCHANGED streamVars
    /\ UNCHANGED otherVars

\* part_000:29: fn() resolved, its value is returned through every frame
FnResolves(v) ==
    /\ retryPc = "calling"
    /\ attempts' = Append(attempts, [ok |-> TRUE, value |-> v])
    /\ inFlight' = inFlight - 1
    /\ retryPc' = "returned"
    /\ settled' = [kind |-> "value", value |-> v]
    /\ UNCHANGED <<retries, retries0>>
    /\ UNCHANGED streamVars
    /\ UNCHANGED otherVars

\* part_000:30-33: fn() rejected; rethrow, or warn and start the delay
FnRejects(err) ==
    /\ retryPc = "calling"
    /\ attempts' = Append(attempts, [ok |-> FALSE, value |-> err])
    /\ inFlight' = inFlight - 1
    /\ IF Exhausted(retries)
       THEN /\ retryPc' = "thrown"
            /\ settled' = [kind |-> "error", value |-> err]
       ELSE /\ retryPc' = "waiting"
            /\ UNCHANGED settled
    /\ UNCHANGED <<retries, retries0>>
    /\ UNCHANGED streamVars
    /\ UNCHANGED otherVars

\* part_000:33-34 and 27-29: the delay is over, axiosWithRetry(fn,
\* retries - 1) runs up to its await of fn()
DelayElapsed ==
    /\ retryPc = "waiting"
    /\ retries' = retries - 1
    /\ inFlight' = inFlight + 1
    /\ retryPc' = "calling"
    /\ UNCHANGED <<retries0, attempts, settled>>
    /\ UNCHANGED streamVars
    /\ UNCHANGED otherVars

RetryNext ==
    \/ \E n \in 0..MaxRetries : CallWithRetry(n)
    \/ \E v \in FnValues : FnResolves(v)
    \/ \E err \in FnErrors : FnRejects(err)
    \/ DelayElapsed

SpecRetry == RetryInit /\ [][RetryNext]_vars

(***************************************************************************)
(* The buffered handler (part_000:103-200): normalise the request, call    *)
(* the upstream through axiosWithRetry, answer.                            *)
(***************************************************************************)
MIN_COMPLETION_TOKENS == 1
MAX_COMPLETION_TOKENS == 2048

\* part_000:60-68
MODEL_MAPPING ==
    [k \in {"gpt-3.5-turbo", "gpt-4", "gpt-4-turbo", "gpt-4o", "claude-3-opus",
            "claude-3-sonnet", "gemini-pro"} |->
        CASE k = "gpt-3.5-turbo" -> "nvidia/llama-3.1-nemotron-ultra-253b-v1"
          [] k = "gpt-4" -> "qwen/qwen3-coder-480b-a35b-instruct"
          [] k = "gpt-4-turbo" -> "moonshotai/kimi-k2-instruct-0905"
          [] k = "gpt-4o" -> "deepseek-ai/deepseek-v3.1"
          [] k = "claude-3-opus" -> "openai/gpt-oss-120b"
          [] k = "claude-3-sonnet" -> "openai/gpt-oss-20b"
          [] k = "gemini-pro" -> "qwen/qwen3-next-80b-a3b-thinking"]

FALLBACK_MODEL == "meta/llama-3.1-70b-instruct"

\* part_000:107: MODEL_MAPPING[model] || 'meta/llama-3.1-70b-instruct'
ResolveModel(model) ==
    IF model \in DOMAIN MODEL_MAPPING THEN MODEL_MAPPING[model]
    ELSE FALLBACK_MODEL

\* part_000:115-125: the injected message
DIRECTIVE == [role |-> "system", content |-> "You are a creative narrator. ..."]

\* part_000:105: messages = []  (the default of the destructuring)
MessagesOf(body) == IF body.messages.given THEN body.messages.v ELSE <<>>

\* the test with only the first message looked at
HasSystemFirstOnly(messages) ==
    messages # <<>> /\ messages[1].role = "system"

\* part_000:110: messages.some(m => m.role === 'system')
HasSystem(messages) == \E i \in 1..Len(messages) : messages[i].role = "system"

\* part_000:112-127
EnforcedMessages(messages) ==
    IF HasSystem(messages) THEN messages ELSE <<DIRECTIVE>> \o messages

MathMax(a, b) == IF a >= b THEN a ELSE b
MathMin(a, b) == IF a <= b THEN a ELSE b

\* max_tokens || MIN_COMPLETION_TOKENS: an absent count and 0 are falsy
OrFloor(t) == IF t.given /\ t.v # 0 THEN t.v ELSE MIN_COMPLETION_TOKENS

\* the clamp without its floor
EnforcedMaxTokensNoFloor(t) == MathMin(OrFloor(t), MAX_COMPLETION_TOKENS)

\* part_000:129-132
EnforcedMaxTokens(t) ==
    MathMin(MathMax(OrFloor(t), MIN_COMPLETION_TOKENS), MAX_COMPLETION_TOKENS)

\* error.response?.status of what fn() rejected with: 0 when the error
\* carries no response
StatusOf(err) == IF err = "HTTP503" THEN 503 ELSE 0

\* bodies the handler is sent; the three normalisations do not depend on
\* one another, so the bodies vary one field at a time
Given(x) == [given |-> TRUE, v |-> x]
Absent == [given |-> FALSE, v |-> 0]
AbsentList == [given |-> FALSE, v |-> <<>>]
Models == {"gpt-4", "gpt-4o", "unknown-model-xyz", "deepseek-ai/deepseek-v3.1"}
Roles == {"system", "user", "assistant"}
Message == [role : Roles, content : {"a", "b"}]
MessageLists == UNION {[1..n -> Message] : n \in 0..MaxMessages}
TokenCounts ==
    (-2..3) \cup ((MAX_COMPLETION_TOKENS - 1)..(MAX_COMPLETION_TOKENS + 1))
        \cup {999999}
BaseBody ==
    [model |-> "gpt-4",
     messages |-> Given(<<[role |-> "user", content |-> "a"]>>),
     max_tokens |-> Given(100)]
Bodies ==
    {[BaseBody EXCEPT !.model = m] : m \in Models}
    \cup {[BaseBody EXCEPT !.messages = Given(l)] : l \in MessageLists}
    \cup {[BaseBody EXCEPT !.messages = AbsentList]}
    \cup {[BaseBody EXCEPT !.max_tokens = Given(t)] : t \in TokenCounts}
    \cup {[BaseBody EXCEPT !.max_tokens = Absent]}

BufferedInit ==
    /\ SHOW_REASONING = FALSE
    /\ StreamIdle
    /\ RetryIdle
    /\ downstream = [open |-> TRUE, writes |-> 0, bytes |-> 0]
    /\ streams = NoStreams
    /\ request \in Bodies
    /\ payload = [model |-> "", messages |-> <<>>, max_tokens |-> 0,
                  stream |-> FALSE]

\* part_000:105-140
BuildPayload ==
    /\ phase = "received"
    /\ phase' = "posting"
    /\ payload' = [model |-> ResolveModel(request.model),
                   messages |-> EnforcedMessages(MessagesOf(request)),
                   max_tokens |-> EnforcedMaxTokens(request.max_tokens),
                   stream |-> FALSE]
    /\ UNCHANGED <<SHOW_REASONING, upstreamCalls, buffer, reasoningStarted,
                   res, resEnded, resStatus, crashed, upState, rem, remFinal,
                   linesEmitted, wire, seen>>
    /\ UNCHANGED retryVars
    /\ UNCHANGED <<downstream, request, streams>>

\* part_000:142-153: await axiosWithRetry(() => nimAxios.post(...))
CallUpstream ==
    /\ phase = "posting"
    /\ CallWithRetry(DefaultRetries)

\* part_000:155-183: res.json({...})
Respond ==
    /\ phase = "posting"
    /\ retryPc = "returned"
    /\ phase' = "done"
    /\ resEnded' = TRUE
    /\ UNCHANGED <<SHOW_REASONING, upstreamCalls, buffer, reasoningStarted,
                   res, resStatus, crashed, upState, rem, remFinal,
                   linesEmitted, wire, seen>>
    /\ UNCHANGED retryVars
    /\ UNCHANGED otherVars

\* part_000:185-199: res.status(error.response?.status || 500).json({...})
Catch ==
    /\ phase = "posting"
    /\ retryPc = "thrown"
    /\ phase' = "failed"
    /\ resStatus' = IF StatusOf(settled.value) # 0
                    THEN StatusOf(settled.value) ELSE 500
    /\ resEnded' = TRUE
    /\ UNCHANGED <<SHOW_REASONING, upstreamCalls, buffer, reasoningStarted,
                   res, crashed, upState, rem, remFinal, linesEmitted, wire,
                   seen>>
    /\ UNCHANGED retryVars
    /\ UNCHANGED otherVars

BufferedNext ==
    \/ BuildPayload
    \/ CallUpstream
    \/ \E v \in FnValues : FnResolves(v)
    \/ \E err \in FnErrors : FnRejects(err)
    \/ DelayElapsed
    \/ Respond
    \/ Catch

SpecBuffered == BufferedInit /\ [][BufferedNext]_vars

(***************************************************************************)
(* What the claims speak about, read off the history variables rather than *)
(* off the handler.                                                        *)
(***************************************************************************)
\* streaming has begun
Streaming == phase \in {"streaming", "done"}

\* the complete (newline-terminated) lines received so far, as the handler
\* saw their characters, and the data lines among them
SeenLines == AllButLast(Split(seen))
IsDataLine(line) == StartsWith(line, DATA_PREFIX)
SeenDataLines == SelectSeq(SeenLines, IsDataLine)

\* a data line that carries the terminal marker
IsMarkerLine(line) == IsDataLine(line) /\ Includes(line, DONE_MARK)

\* a data line whose payload is not valid JSON
IsBadJsonLine(line) ==
    /\ IsDataLine(line)
    /\ ~Includes(line, DONE_MARK)
    /\ ~JSON_parse(Slice(line, 6)).ok

\* the delta event a data line carries: choices[0].delta of its payload, or
\* undefined when the line is not a decodable event with such a delta
DeltaOf(line) ==
    IF IsDataLine(line) /\ ~Includes(line, DONE_MARK)
       /\ JSON_parse(Slice(line, 6)).ok
    THEN LET d == Get(At(Get(JSON_parse(Slice(line, 6)).v, K_choices), 0),
                      K_delta)
         IN  IF d.t = "object" THEN d ELSE JUndef
    ELSE JUndef

\* the non-empty reasoning / content fragment of a line's delta event, or <<>>
FragmentOf(line, key) ==
    LET f == Get(DeltaOf(line), key)
    IN  IF f.t = "string" THEN f.v ELSE <<>>
ReasoningOf(line) == FragmentOf(line, K_reasoning_content)
ContentOf(line) == FragmentOf(line, K_content)

\* a written text of the form "data: <json>\n\n", and the content of its
\* event's first delta
IsEventWrite(w) ==
    /\ StartsWith(w, DATA_PREFIX)
    /\ Len(w) >= 8
    /\ SubSeq(w, Len(w) - 1, Len(w)) = <<"\n", "\n">>
    /\ JSON_parse(SubSeq(w, 7, Len(w) - 2)).ok
WrittenLine(w) == SubSeq(w, 1, Len(w) - 2)
WrittenContent(w) ==
    IF IsEventWrite(w) THEN ContentOf(WrittenLine(w)) ELSE <<>>

\* how often pat occurs in s
Count(s, pat) ==
    Cardinality({i \in 1..(Len(s) - Len(pat) + 1) :
                   SubSeq(s, i, i + Len(pat) - 1) = pat})

(***************************************************************************)
(* C1.  axiosWithRetry(fn, n) with an fn that fails on every call: the     *)
(* attempts are strictly sequential (never two fn() pending, one pending   *)
(* exactly while the wrapper awaits it), fn is invoked at most n+1 times,  *)
(* the wrapper keeps going until the n+1st attempt has failed, and then it *)
(* throws, to the caller, the error of that last attempt as it is.         *)
(***************************************************************************)
AllFailed == \A i \in 1..Len(attempts) : ~attempts[i].ok

C1_RetryBound ==
    /\ inFlight \in {0, 1}
    /\ inFlight = 1 <=> retryPc = "calling"
    /\ (retryPc # "idle" /\ AllFailed) =>
         /\ Len(attempts) + inFlight <= retries0 + 1
         /\ Len(attempts) < retries0 + 1 => retryPc \in {"calling", "waiting"}
         /\ Len(attempts) = retries0 + 1 =>
              /\ retryPc = "thrown"
              /\ settled = [kind |-> "error",
                            value |-> attempts[Len(attempts)].value]

\* the default of two retries, three failed attempts, the third error (which
\* differs from the first) thrown
C1_Witness ==
    /\ retries0 = DefaultRetries
    /\ retryPc = "thrown"
    /\ Len(attempts) = 3
    /\ AllFailed
    /\ attempts[1].value # attempts[3].value
    /\ settled.value = attempts[3].value

(***************************************************************************)
(* C2.  Whatever the chunk boundaries were (mid-line, several lines in one *)
(* chunk, empty chunks), as long as they fell between characters, the      *)
(* writes to the response are those of the same stream delivered one whole *)
(* line per chunk.                                                         *)
(***************************************************************************)
\* the run of the "data" listener over `lines`, one whole line per chunk
RECURSIVE WholeLineRun(_, _, _, _, _)
WholeLineRun(lines, buf, started, show, writes) ==
    IF lines = <<>> THEN writes
    ELSE LET r == DataListener(buf, started, show,
                               Utf8(Head(lines)) \o <<"\n">>)
         IN  WholeLineRun(Tail(lines), r.buffer, r.started, show,
                          writes \o r.writes)

\* no chunk boundary fell inside a multi-byte character
CutsBetweenCharacters == chunk_toString(wire) = seen

Renderings(line, show) ==
    IF show
    THEN {pre \o ReasoningOf(line) \o mid \o ContentOf(line) :
            pre \in {<<>>, THINK_OPEN}, mid \in {<<>>, THINK_CLOSE}}
    ELSE {ContentOf(line)}

Renders(w, line, show) ==
    IF IsMarkerLine(line) \/ IsBadJsonLine(line) THEN w = line \o <<"\n">>
    ELSE /\ IsEventWrite(w)
         /\ IF DeltaOf(line) = JUndef
            THEN WrittenLine(w) = line
            ELSE WrittenContent(w) \in Renderings(line, show)

C3_OrderPreserved ==
    Streaming =>
        /\ Len(res) = Len(SeenDataLines)
        /\ \A i \in 1..Len(res) :
             Renders(res[i], SeenDataLines[i], SHOW_REASONING)

\* a content event, then the terminal marker, both written, in that order
C3_Witness ==
    /\ SeenDataLines = <<LineContentHel, LineDone>>
    /\ Len(res) = 2
    /\ WrittenContent(res[1]) = TextHel
    /\ res[2] = LineDone \o <<"\n">>

(***************************************************************************)
(* C4.  No text written to the response carries the provider's reasoning   *)
(* field, nor, under the hidden policy, any reasoning text.                *)
(***************************************************************************)
C4_ReasoningNeverForwarded ==
    \A i \in 1..Len(res) :
        /\ ~Includes(res[i], K_reasoning_content)
        /\ ~SHOW_REASONING => ~Includes(res[i], TextR)

(***************************************************************************)
(* C5.  The terminal-marker line ends the logical stream: nothing is       *)
(* written after it.                                                       *)
(***************************************************************************)
C5_NothingAfterDone ==
    \A i \in 1..Len(res) :
        res[i] = LineDone \o <<"\n">> => i = Len(res)

(***************************************************************************)
(* C6.  Every complete line that does not begin with "data: " is written   *)
(* to the response unchanged.                                              *)
(***************************************************************************)
C6_NonDataLinesWritten ==
    Streaming =>
        \A i \in 1..Len(SeenLines) :
            ~IsDataLine(SeenLines[i]) =>
                \E j \in 1..Len(res) :
                    res[j] \in {SeenLines[i], SeenLines[i] \o <<"\n">>}

(***************************************************************************)
(* C7.  A data line whose payload is not valid JSON is written as it is,   *)
(* and apart from that write it is as if the line had never arrived: the   *)
(* reasoning-open flag and the other writes are those of the stream        *)
(* without the undecodable lines, the line buffer holds the unfinished     *)
(* last line, and the response is closed only when the upstream ends.      *)
(***************************************************************************)
IsDecodable(line) == ~IsBadJsonLine(line)

\* the writes at the places of the data lines that are decodable
KeptWrites ==
    LET keep == {i \in 1..Len(res) : IsDecodable(SeenDataLines[i])}
        RECURSIVE Pick(_)
        Pick(i) == IF i > Len(res) THEN <<>>
                   ELSE (IF i \in keep THEN <<res[i]>> ELSE <<>>) \o Pick(i + 1)
    IN  Pick(1)

C7_BadLineTolerated ==
    Streaming =>
        LET without == ForEachLine(SelectSeq(SeenLines, IsDecodable), FALSE,
                                   SHOW_REASONING, <<>>)
        IN  /\ Len(res) = Len(SeenDataLines)
            /\ \A i \in 1..Len(res) :
                 IsBadJsonLine(SeenDataLines[i]) =>
                     res[i] = SeenDataLines[i] \o <<"\n">>
            /\ KeptWrites = without.writes
            /\ reasoningStarted = without.started
            /\ buffer = KeepLast(Split(seen))
            /\ resEnded => upState \in {"ended", "errored"}

\* reasoning is open, an undecodable line arrives and is written, the flag
\* is still set and the response still open
C7_Witness ==
    /\ SHOW_REASONING
    /\ SeenDataLines = <<LineReasoning, LineBadJson>>
    /\ Len(res) = 2
    /\ res[2] = LineBadJson \o <<"\n">>
    /\ reasoningStarted
    /\ ~resEnded

(***************************************************************************)
(* C8.  Reasoning fragments followed by content fragments, reassembled     *)
(* from the written events, read as the non-stream mapper renders the same *)
(* reasoning and content.                                                  *)
(***************************************************************************)
RECURSIVE Concat(_)
Concat(parts) ==
    IF parts = <<>> THEN <<>> ELSE Head(parts) \o Concat(Tail(parts))

\* every data line is a delta event with reasoning only or content only, and
\* no reasoning comes after content
ReasoningThenContent(lines) ==
    /\ \A i \in 1..Len(lines) :
         /\ DeltaOf(lines[i]) # JUndef
         /\ ReasoningOf(lines[i]) = <<>> \/ ContentOf(lines[i]) = <<>>
    /\ \A i, j \in 1..Len(lines) :
         (i < j /\ ContentOf(lines[i]) # <<>>) => ReasoningOf(lines[j]) = <<>>

\* the upstream's complete answer for the same reasoning and content
WholeChoice(lines) ==
    JObj(<< <<K_message,
              JObj(<< <<K_content,
                        JStr(Concat([i \in 1..Len(lines) |->
                                       ContentOf(lines[i])]))>>,
                      <<K_reasoning_content,
                        JStr(Concat([i \in 1..Len(lines) |->
                                       ReasoningOf(lines[i])]))>> >>)>> >>)

C8_SameRendering ==
    (upState = "ended" /\ ~remFinal /\ ReasoningThenContent(SeenDataLines)) =>
        Concat([i \in 1..Len(res) |-> WrittenContent(res[i])])
            = NonStreamContent(WholeChoice(SeenDataLines), SHOW_REASONING)

(***************************************************************************)
(* C9.  Under the visible policy, with "flag" the reasoning-open flag as   *)
(* it stands when the fragment is looked at: the written content of an     *)
(* event has an opening delimiter exactly when the event's delta has a     *)
(* reasoning fragment and the flag is false, a closing delimiter exactly   *)
(* when it has a content fragment and the flag is true, the closing one    *)
(* directly in front of that content; so the delimiters alternate,         *)
(* starting with an opening one, and reasoningStarted holds exactly when   *)
(* one more has been opened than closed.                                   *)
(***************************************************************************)
Opens(w) == Count(WrittenContent(w), THINK_OPEN)
Closes(w) == Count(WrittenContent(w), THINK_CLOSE)

\* delimiters opened minus delimiters closed in the first k writes
RECURSIVE Balance(_)
Balance(k) ==
    IF k = 0 THEN 0 ELSE Balance(k - 1) + Opens(res[k]) - Closes(res[k])

EndsWith(s, p) ==
    Len(s) >= Len(p) /\ SubSeq(s, Len(s) - Len(p) + 1, Len(s)) = p

C9_DelimitersAlternate ==
    (Streaming /\ SHOW_REASONING /\ Len(res) = Len(SeenDataLines)) =>
        /\ \A i \in 1..Len(res) :
             LET line == SeenDataLines[i]
                 openBefore == Balance(i - 1) = 1
                 reasons == ReasoningOf(line) # <<>>
                 contents == ContentOf(line) # <<>>
             IN  /\ Balance(i) \in {0, 1}
                 /\ Opens(res[i]) = IF reasons /\ ~openBefore THEN 1 ELSE 0
                 /\ Closes(res[i]) =
                      IF contents /\ (openBefore \/ reasons) THEN 1 ELSE 0
                 /\ Opens(res[i]) = 1 =>
                      StartsWith(WrittenContent(res[i]), THINK_OPEN)
                 /\ Closes(res[i]) = 1 =>
                      EndsWith(WrittenContent(res[i]),
                               THINK_CLOSE \o ContentOf(line))
        /\ reasoningStarted <=> Balance(Len(res)) = 1

\* opened and closed within one event, then opened again by the next
C9_Witness ==
    /\ SHOW_REASONING
    /\ SeenDataLines = <<LineBoth, LineReasoning>>
    /\ Len(res) = 2
    /\ Opens(res[1]) = 1
    /\ Closes(res[1]) = 1
    /\ Opens(res[2]) = 1
    /\ reasoningStarted

(***************************************************************************)
(* C10.  Once streaming has begun, the upstream's end or error leaves the  *)
(* response closed and handled, and no second upstream request is made.    *)
(***************************************************************************)
C10_UpstreamEndClosesResponse ==
    /\ upState \in {"ended", "errored"} => (resEnded /\ ~crashed)
    /\ Streaming => upstreamCalls = 1


(***************************************************************************)
(* C11.  After the caller has disconnected from a streaming response, no   *)
(* further upstream chunk is consumed and nothing more is written to the   *)
(* closed response.                                                        *)
(***************************************************************************)
C11_DisconnectStopsUpstream ==
    ~downstream.open =>
        /\ Len(wire) = downstream.bytes
        /\ Len(res) = downstream.writes

(***************************************************************************)
(* C12.  Every failure while handling a request ends in one outcome: a     *)
(* response that is finished normally, or the structured error with the    *)
(* upstream status when there is one and 500 otherwise; no failure is left *)
(* unhandled.                                                              *)
(***************************************************************************)
C12_EveryFailureAnswered ==
    /\ ~crashed
    /\ phase = "failed" =>
         /\ resEnded
         /\ resStatus \in (UpstreamErrors \ {0}) \cup {500}
         /\ res = <<>>
    /\ upState = "errored" => resEnded

(***************************************************************************)
(* C13.  The upstream call of a streaming request is retried like that of  *)
(* a buffered one: the handler reports the failure of the call only after  *)
(* the call has been made DefaultRetries + 1 times, and it never makes     *)
(* more calls than that.                                                   *)
(***************************************************************************)
C13_StreamingCallRetried ==
    /\ upstreamCalls <= DefaultRetries + 1
    /\ phase = "failed" => upstreamCalls = DefaultRetries + 1

(***************************************************************************)
(* C14.  A PayloadTooLarge failure is not retried and is answered as a     *)
(* client error: an attempt that failed with it is the only attempt, the   *)
(* wrapper throws at once, and the handler answers with a 4xx status.      *)
(***************************************************************************)
C14_PayloadTooLargeNotRetried ==
    /\ \A i \in 1..Len(attempts) :
         attempts[i] = [ok |-> FALSE, value |-> PAYLOAD_TOO_LARGE] =>
             /\ Len(attempts) = 1
             /\ retryPc = "thrown"
    /\ (phase = "failed" /\ settled.kind = "error"
          /\ settled.value = PAYLOAD_TOO_LARGE) =>
         resStatus \in 400..499

(***************************************************************************)
(* C15.  The model sent upstream is the table's value when the inbound     *)
(* identifier is a key of the table, and the inbound identifier itself     *)
(* when it is not.                                                         *)
(***************************************************************************)
C15_ModelPassedThrough ==
    phase # "received" =>
        payload.model = IF request.model \in DOMAIN MODEL_MAPPING
                        THEN MODEL_MAPPING[request.model]
                        ELSE request.model

(***************************************************************************)
(* C16.  The max_tokens sent upstream is the requested integer count       *)
(* clamped to [MIN_COMPLETION_TOKENS, MAX_COMPLETION_TOKENS], the floor    *)
(* when no count was requested, and always lies in that range.             *)
(***************************************************************************)
Clamped(t) ==
    IF t < MIN_COMPLETION_TOKENS THEN MIN_COMPLETION_TOKENS
    ELSE IF t > MAX_COMPLETION_TOKENS THEN MAX_COMPLETION_TOKENS
    ELSE t

C16_TokensClamped ==
    phase # "received" =>
        /\ payload.max_tokens \in MIN_COMPLETION_TOKENS..MAX_COMPLETION_TOKENS
        /\ payload.max_tokens =
             IF request.max_tokens.given THEN Clamped(request.max_tokens.v)
             ELSE MIN_COMPLETION_TOKENS

\* a negative count was requested and the floor was sent
C16_Witness ==
    /\ phase = "posting"
    /\ request.max_tokens.given
    /\ request.max_tokens.v < 0
    /\ payload.max_tokens = MIN_COMPLETION_TOKENS

(***************************************************************************)
(* C17.  A message list with a system message is sent upstream as it is;   *)
(* any other list is sent with the directive in front and the inbound      *)
(* messages unchanged and in order behind it.  The list sent is never      *)
(* empty.                                                                  *)
(***************************************************************************)
C17_SystemDirective ==
    phase # "received" =>
        LET inbound == MessagesOf(request)
            sent == payload.messages
        IN  /\ sent # <<>>
            /\ IF \E i \in 1..Len(inbound) : inbound[i].role = "system"
               THEN sent = inbound
               ELSE /\ Len(sent) = Len(inbound) + 1
                    /\ sent[1] = DIRECTIVE
                    /\ \A i \in 1..Len(inbound) : sent[i + 1] = inbound[i]

\* a list whose second message is the system message was sent unchanged
C17_Witness ==
    /\ phase = "posting"
    /\ Len(MessagesOf(request)) = 2
    /\ MessagesOf(request)[1].role = "user"
    /\ MessagesOf(request)[2].role = "system"
    /\ payload.messages = MessagesOf(request)

(***************************************************************************)
(* C18.  With several streaming requests in flight and their "data" events *)
(* dispatched in any order, what has been written to each request's        *)
(* response, and its line buffer and flag, are what that request's own     *)
(* chunks produce when it runs alone.                                      *)
(***************************************************************************)
\* the chunks of request r, in the order they were dispatched
RECURSIVE ChunksOf(_, _)
ChunksOf(events, r) ==
    IF events = <<>> THEN <<>>
    ELSE (IF Head(events)[1] = r THEN <<Head(events)[2]>> ELSE <<>>)
         \o ChunksOf(Tail(events), r)

\* a request alone: the listener run over its chunks from fresh bindings
RECURSIVE Alone(_, _, _)
Alone(chunks, c, show) ==
    IF chunks = <<>> THEN c
    ELSE LET out == DataListener(c.buffer, c.reasoningStarted, show,
                                 Head(chunks))
         IN  Alone(Tail(chunks),
                   [buffer |-> out.buffer, reasoningStarted |-> out.started,
                    res |-> c.res \o out.writes],
                   show)

C18_RequestsIsolated ==
    \A r \in 1..Len(streams.closures) :
        streams.closures[r] =
            Alone(ChunksOf(streams.events, r),
                  [buffer |-> <<>>, reasoningStarted |-> FALSE, res |-> <<>>],
                  SHOW_REASONING)

\* request 2 got the first half of a reasoning line, then request 1 a whole
\* content line, then request 2 the second half: one write each
C18_Witness ==
    /\ SHOW_REASONING
    /\ Len(streams.events) = 3
    /\ streams.events[1] = <<2, FirstHalf(LineReasoning)>>
    /\ streams.events[2] = <<1, Whole(LineContentLo)>>
    /\ streams.events[3] = <<2, SecondHalf(LineReasoning)>>
    /\ Len(streams.closures[1].res) = 1
    /\ Len(streams.closures[2].res) = 1
    /\ streams.closures[2].reasoningStarted
    /\ ~streams.closures[1].reasoningStarted

(***************************************************************************)
(* C19.  axiosWithRetry stops at the first attempt that succeeds: a        *)
(* successful attempt is the last one, every attempt before it failed, the *)
(* wrapper has returned that attempt's value and nothing is pending; and   *)
(* whatever the outcomes, fn is never invoked more than retries + 1 times. *)
(***************************************************************************)
C19_StopsAtFirstSuccess ==
    /\ retryPc # "idle" => Len(attempts) + inFlight <= retries0 + 1
    /\ \A k \in 1..Len(attempts) :
         attempts[k].ok =>
             /\ k = Len(attempts)
             /\ \A i \in 1..(k - 1) : ~attempts[i].ok
             /\ inFlight = 0
             /\ retryPc = "returned"
             /\ settled = [kind |-> "value", value |-> attempts[k].value]

\* with two retries, the first attempt failed and the second succeeded
C19_Witness ==
    /\ retries0 = DefaultRetries
    /\ Len(attempts) = 2
    /\ ~attempts[1].ok
    /\ attempts[2] = [ok |-> TRUE, value |-> "response2"]
    /\ retryPc = "returned"
    /\ settled.value = "response2"

(***************************************************************************)
(* C20.  A line is written only once its terminating "\n" has arrived: the *)
(* line buffer never holds a "\n", it is the text received after the last  *)
(* "\n", there are as many writes as terminated data lines, and when the   *)
(* upstream ends or errors the response is closed with the retained        *)
(* fragment unwritten.                                                     *)
(***************************************************************************)
C20_FragmentNeverWritten ==
    Streaming =>
        /\ ~Includes(buffer, <<"\n">>)
        /\ Len(buffer) <= Len(seen)
        /\ buffer = Slice(seen, Len(seen) - Len(buffer))
        /\ Len(buffer) < Len(seen) => seen[Len(seen) - Len(buffer)] = "\n"
        /\ Len(res) = Len(SeenDataLines)
        /\ upState \in {"ended", "errored"} => resEnded

\* a content line was written, then the terminal marker came without its
\* newline and the upstream ended: the marker is in the buffer, unwritten
C20_Witness ==
    /\ upState = "ended"
    /\ resEnded
    /\ buffer = LineDone
    /\ Len(res) = 1
    /\ ~Includes(res[1], DONE_MARK)

=============================================================================
